---- MODULE Spec2Model ----
(***************************************************************************)
(* Model of the maintenance task engine of System Companion                *)
(* (src/src/system_companion/core/maintenance_manager.py): the task        *)
(* registry, the state and history files, run_task and its three execution *)
(* branches, run_automated_cleanup, scan_storage_devices, the scheduling   *)
(* metadata and the engine's construction from the persisted files.        *)
(*                                                                         *)
(* Text is modelled as a sequence of tokens, a datetime as a tick of the   *)
(* clock `now`, a JSON file as "absent", "corrupt" or its decoded content. *)
(***************************************************************************)
EXTENDS Integers, Sequences, FiniteSets, TLC

\* ------------------------------------------------------------------ bounds
\* In one session (Spec): the calls that run or schedule tasks, and the external
\* commands that do not end with exit code 0 (non-zero, timeout, OS error).
MaxCalls == 1
MaxFaults == 1
\* Over several sessions (SpecStore): the same two bounds.
MaxStoreCalls == 1
MaxStoreFaults == 1
\* With a long history (SpecCap): the same two bounds.
MaxCapCalls == 2
MaxCapFaults == 1
\* Devices of one class an enumeration can report.
MaxDevices == 2
\* Runs of tasks with several commands (SpecCmd): calls made, commands that fail.
MaxCmdCalls == 1
MaxCmdFaults == 2
\* Calls from two threads (SpecConc): calls made, commands that fail.
MaxConcCalls == 2
MaxConcFaults == 1
\* Calls made on the Config (SpecConfig).
MaxCfgCalls == 1
\* Device scans and disk checks (SpecScan): calls made, commands that fail.
MaxScanCalls == 1
MaxScanFaults == 1
\* Scheduling around runs (SpecSched): calls made, commands that fail.
MaxSchedCalls == 2
MaxSchedFaults == 1
MaxHistCalls == 2
MaxHistFaults == 1
MaxResultCalls == 2
MaxResultFaults == 1
MaxUpdates == 2

\* --------------------------------------------------------- program constants
\* _save_task_history keeps task_history[-100:].
HistoryCap == 100
\* get_task_history(limit=50).
DefaultLimit == 50

\* None is the empty tuple and a present value x is <<x>>.
Null == << >>
Some(x) == << x >>
Absent == "absent"
Corrupt == "corrupt"

PENDING == "pending"
RUNNING == "running"
COMPLETED == "completed"
FAILED == "failed"
SKIPPED == "skipped"
TaskStatus == {PENDING, RUNNING, COMPLETED, FAILED, SKIPPED}

LOW == "low"
MEDIUM == "medium"
HIGH == "high"
CRITICAL == "critical"

\* ---------------------------------------------------------------- registry
\* A command is a sequence of tokens; "sudo" is the token for the text 'sudo '.
SUDO == "sudo"
PKEXEC == "pkexec"

Task(category, priority, commands, requires_sudo) ==
    [category |-> category, priority |-> priority, commands |-> commands,
     requires_sudo |-> requires_sudo]

\* The ids in registration (dict insertion) order.
TaskOrder ==
    << "update_packages", "clean_package_cache", "clean_temp_files", "clean_logs",
       "clean_browser_cache", "optimize_swap", "defragment_filesystem",
       "update_firmware", "check_disk_health", "check_nvme_health" >>

TaskIds == { TaskOrder[i] : i \in DOMAIN TaskOrder }

Registry ==
    [ update_packages |->
        Task("Package Management", MEDIUM,
             << <<SUDO, "apt update">>, <<SUDO, "apt upgrade -y">>,
                <<SUDO, "apt autoremove -y">> >>, TRUE),
      clean_package_cache |->
        Task("Package Management", LOW,
             << <<SUDO, "apt autoclean">>, <<SUDO, "apt autoremove -y">> >>, TRUE),
      clean_temp_files |->
        Task("System Cleanup", LOW,
             << <<SUDO, "rm -rf /tmp/*">>, <<SUDO, "rm -rf /var/tmp/*">>,
                <<"find /home -name *.tmp -delete">>,
                <<"find /home -name *.temp -delete">> >>, TRUE),
      clean_logs |->
        Task("System Cleanup", LOW,
             << <<SUDO, "journalctl --vacuum-time=7d">>,
                <<SUDO, "find /var/log -name *.log.* -mtime +7 -delete">>,
                <<SUDO, "find /var/log -name *.gz -mtime +7 -delete">> >>, TRUE),
      clean_browser_cache |->
        Task("User Cleanup", LOW,
             << <<"rm -rf ~/.cache/mozilla/firefox/*/Cache*">>,
                <<"rm -rf ~/.cache/google-chrome/Default/Cache*">>,
                <<"rm -rf ~/.cache/chromium/Default/Cache*">>,
                <<"rm -rf ~/.cache/brave/Default/Cache*">> >>, FALSE),
      optimize_swap |->
        Task("System Optimization", MEDIUM,
             << <<SUDO, "sysctl vm.swappiness=10">>,
                <<"echo vm.swappiness=10 | ", SUDO, "tee -a /etc/sysctl.conf">> >>, TRUE),
      defragment_filesystem |->
        Task("System Optimization", LOW,
             << <<SUDO, "e4defrag /">>, <<SUDO, "e4defrag /home">> >>, TRUE),
      update_firmware |->
        Task("System Updates", HIGH,
             << <<SUDO, "fwupdmgr refresh --force">>, <<SUDO, "fwupdmgr update">> >>, TRUE),
      check_disk_health |->
        Task("System Health", MEDIUM,
             << <<SUDO, "smartctl -a /dev/sda">>, <<SUDO, "smartctl -a /dev/sdb">> >>, TRUE),
      check_nvme_health |->
        Task("System Health", MEDIUM,
             << <<"nvme smart-log /dev/nvme0n1">> >>, TRUE) ]

\* An id the registry does not hold.
UnknownIds == { "no_such_task" }

\* The mutable fields of a freshly registered task.
NewTask == [status |-> PENDING, last_run |-> Null, next_run |-> Null, result |-> Null]

_initialize_tasks == [id \in TaskIds |-> NewTask]

\* ------------------------------------------------------------------- text
\* `marker in text`
Contains(text, marker) == \E i \in DOMAIN text : text[i] = marker

FirmwareMarker == "0 local devices supported"
SmartctlMarker == "Command 'smartctl' not found"
NoDisksMsg == "No supported disks found for SMART health check."
NoNvmeMsg == "No NVMe devices found for health check."

\* datetime.isoformat() and datetime.fromisoformat(): the text of a tick, and back.
isoformat(t) == <<"T", t>>

IsIso(s) == Len(s) = 2 /\ s[1] = "T"

fromisoformat(s) == s[2]

\* ------------------------------------------------------------------- files
\* A file is absent, corrupt (unparseable) or holds JSON (`data`).
JSON == "json"

File(kind, data) == [kind |-> kind, data |-> data]

BlankState ==
    [last_run |-> [id \in TaskIds |-> Null],
     firmware_no_supported_hardware |-> FALSE, smartctl_not_found |-> FALSE,
     no_smart_devices_found |-> FALSE, has_sata_devices |-> FALSE,
     has_nvme_devices |-> FALSE]

NoStateFile == File(Absent, BlankState)
CorruptStateFile == File(Corrupt, BlankState)
NoHistoryFile == File(Absent, << >>)

\* What open(path, "w") and json.dump leave: the new content, or the old file
\* when the directory cannot be written (the exception is caught and logged).
WriteFile(old, data, writable) == IF writable THEN File(JSON, data) ELSE old

\* A clear that forgets the file: nothing is removed.
UnlinkFileKept(old, writable) == old

\* HISTORY_FILE.unlink() when the file exists.
UnlinkFile(old, writable) == IF old.kind # Absent /\ writable THEN File(Absent, << >>) ELSE old

\* The state dictionary _save_last_run_state dumps.
StateJson(ts, fw, sm, nd, sata, nvme) ==
    [last_run |-> [id \in TaskIds |->
                     IF ts[id].last_run # Null THEN isoformat(ts[id].last_run[1]) ELSE Null],
     firmware_no_supported_hardware |-> fw, smartctl_not_found |-> sm,
     no_smart_devices_found |-> nd, has_sata_devices |-> sata, has_nvme_devices |-> nvme]

\* A load that reads no last_run from the file.
LoadLastRunSkipped(file, ts) == ts

\* The tasks after _load_last_run_state: a last_run is read for the ids the file
\* gives a non-empty text for, and is None when the text is no ISO date.
LoadLastRun(file, ts) ==
    [id \in TaskIds |->
        IF file.kind = JSON /\ file.data.last_run[id] # Null
        THEN [ts[id] EXCEPT !.last_run =
                 IF IsIso(file.data.last_run[id])
                 THEN Some(fromisoformat(file.data.last_run[id])) ELSE Null]
        ELSE ts[id]]

\* A load that sets a flag whenever the file gives no value for it.
LoadFlagSetWhenUnread(file, key, default) == IF file.kind = JSON THEN file.data[key] ELSE TRUE

\* A flag after _load_last_run_state: state.get(key, False), or the value the
\* constructor set when the file is absent or cannot be parsed.
LoadFlag(file, key, default) == IF file.kind = JSON THEN file.data[key] ELSE default

\* task_history[-n:]
LastN(h, n) == IF Len(h) <= n THEN h ELSE SubSeq(h, Len(h) - n + 1, Len(h))

\* A save that keeps the first 100 results instead of the last.
HistoryJsonOldest(h) ==
    [i \in 1..Len(LastN(h, HistoryCap)) |-> [h[i] EXCEPT !.timestamp = isoformat(@)]]

\* The entries _save_task_history dumps: the last 100 results, timestamps as text.
HistoryJson(h) ==
    [i \in 1..Len(LastN(h, HistoryCap)) |->
        [LastN(h, HistoryCap)[i] EXCEPT !.timestamp = isoformat(@)]]

\* The history after _load_task_history; `h` is kept when the file is absent or corrupt.
LoadHistory(file, h) ==
    IF file.kind = JSON
    THEN [i \in 1..Len(file.data) |->
            [file.data[i] EXCEPT !.timestamp = fromisoformat(@)]]
    ELSE h

\* get_task_history(limit): task_history[-limit:] if task_history else []
get_task_history(h, limit) ==
    IF h = << >> THEN << >>
    ELSE IF limit = 0 THEN h
    ELSE LastN(h, limit)

MaintenanceResult(task_id, success, output, error, duration, timestamp) ==
    [task_id |-> task_id, success |-> success, output |-> output, error |-> error,
     duration |-> duration, timestamp |-> timestamp]

\* ------------------------------------------------------- device enumeration
SataNames == << "/dev/sda", "/dev/sdb", "/dev/sdc", "/dev/sdd" >>
NvmeNames == << "/dev/nvme0n1", "/dev/nvme1n1", "/dev/nvme2n1", "/dev/nvme3n1" >>

\* parts[0].startswith('/dev/sd'), parts[0].startswith('/dev/nvme')
StartsWithSd(tok) == \E i \in DOMAIN SataNames : SataNames[i] = tok
StartsWithNvme(tok) == tok = "/dev/nvme0" \/ \E i \in DOMAIN NvmeNames : NvmeNames[i] = tok

\* The lines `smartctl --scan` can print: n SATA lines, then possibly an NVMe line.
\* A line is the sequence of its whitespace-separated parts.
SmartctlScanOutputs ==
    { [i \in 1..n |-> << SataNames[i], "-d", "scsi" >>] \o tail :
        n \in 0..MaxDevices, tail \in { << >>, << << "/dev/nvme0", "-d", "nvme" >> >> } }

\* The lines `nvme list` can print: nothing, or the header, the separator and n devices.
NvmeListOutputs ==
    { << >> } \cup
    { << << "Node", "SN", "Model" >>, << "-----", "-----" >>, << >> >> \o
      [i \in 1..n |-> << NvmeNames[i], "SN", "Model" >>] : n \in 0..MaxDevices }

FirstParts(lines) == [i \in 1..Len(lines) |-> lines[i][1]]

IsSataLine(line) == line # << >> /\ StartsWithSd(line[1])

\* The devices run_task and scan_storage_devices read from `smartctl --scan`.
ParseSata(lines) == FirstParts(SelectSeq(lines, IsSataLine))

IsNvmeLine(line) ==
    /\ line # << >>
    /\ line[1] # "Node"
    /\ line[1] # "-----"
    /\ StartsWithNvme(line[1])

\* The devices run_task and scan_storage_devices read from `nvme list`.
ParseNvme(lines) == FirstParts(SelectSeq(lines, IsNvmeLine))

\* ------------------------------------------------------------------- state
Callers == { "t1", "t2" }

VARIABLES
    up,                \* the engine is constructed
    tasks,             \* self.tasks: id -> the mutable fields of the task
    task_history,      \* self.task_history
    firmware_no_supported_hardware,
    smartctl_not_found,
    no_smart_devices_found,
    has_sata_devices,
    has_nvme_devices,
    stateFile,         \* STATE_FILE
    historyFile,       \* HISTORY_FILE
    now,               \* the clock datetime.now() reads
    pc,                \* caller -> where its call stands
    loc,               \* caller -> the locals of its call
    ret,               \* caller -> how its last call ended
    calls,             \* calls the presentation layer still makes
    faults,            \* external commands that still fail
    diskOk,            \* the data directory can be written
    _config,           \* Config._config: field -> value
    configFile,        \* the file at Config.config_file
    configOk,          \* the configuration file can be written
    cfgRet,            \* how the last call on the Config ended
    cfgCalls           \* calls on the Config still made

flagVars ==
    << firmware_no_supported_hardware, smartctl_not_found, no_smart_devices_found,
       has_sata_devices, has_nvme_devices >>
memVars == << tasks, task_history, flagVars >>
fileVars == << stateFile, historyFile >>
callVars == << pc, loc, ret >>
budgetVars == << calls, faults, diskOk >>
engineVars == << up, memVars, fileVars, now, callVars, budgetVars >>
cfgVars == << _config, configFile, configOk, cfgRet, cfgCalls >>
vars == << engineVars, cfgVars >>

\* No elevated script has been run by the call.
NoSession == [kind |-> "none", failAt |-> 0, text |-> "out"]

BlankLoc ==
    [op |-> "none", task_id |-> "none", nested |-> FALSE, success |-> TRUE,
     output |-> << >>, error |-> Null, start_time |-> 0, devices |-> << >>,
     idx |-> 0, result |-> << >>, results |-> << >>, queue |-> << >>,
     entries |-> << >>, seq |-> 0, hist0 |-> 0, run0 |-> 0, found |-> -1,
     elevated |-> 0, absent |-> FALSE, session |-> NoSession, scripts |-> 0]

NoRet == [seq |-> 0, op |-> "none", arg |-> "none", kind |-> "none", value |-> << >>,
          hist0 |-> 0, found |-> -1, elevated |-> 0, limit |-> -1, scripts |-> 0]

\* A save that leaves the "no devices" key out, so that it reads as False.
SaveStateWithoutNoDevices(ts, fw, sm, nd, sata, nvme) ==
    WriteFile(stateFile, StateJson(ts, fw, sm, FALSE, sata, nvme), diskOk)

\* ------------------------------------------------------------ configuration
\* A Python value: its type and a number (for a str its place in Strings, for a
\* bool 0 or 1, for a float its integral value).
Strings == << "auto", "light", "dark", "blue" >>
int(n) == [type |-> "int", n |-> n]
float(n) == [type |-> "float", n |-> n]
bool(b) == [type |-> "bool", n |-> IF b THEN 1 ELSE 0]
str(s) == [type |-> "str", n |-> CHOOSE i \in DOMAIN Strings : Strings[i] = s]
None == [type |-> "none", n |-> 0]

\* isinstance(value, int): bool is a subclass of int.
IsInt(value) == value.type \in { "int", "bool" }
\* isinstance(value, (int, float))
IsNumber(value) == value.type \in { "int", "bool", "float" }

\* SystemCompanionConfig(): the fields _validate_value knows and one it does not.
SystemCompanionConfig ==
    [ window_width |-> int(1200), window_height |-> int(800), theme |-> str("auto"),
      refresh_interval |-> int(1000), autostart |-> bool(FALSE),
      max_history_points |-> int(3600), critical_threshold_cpu |-> float(90),
      critical_threshold_memory |-> float(90), critical_threshold_disk |-> float(95) ]

ConfigKeys == DOMAIN SystemCompanionConfig

\* hasattr(self._config, key)
hasattr(config, key) == key \in DOMAIN config

\* Config.get(key, default)
get(config, key, default) == IF hasattr(config, key) THEN config[key] ELSE default

\* _validate_value(key, value) raises nothing.
_validate_value(key, value) ==
    CASE key = "refresh_interval" -> IsInt(value) /\ value.n >= 100
      [] key = "window_width" -> IsInt(value) /\ value.n >= 800
      [] key = "window_height" -> IsInt(value) /\ value.n >= 600
      [] key = "theme" ->
            value.type = "str" /\ Strings[value.n] \in { "auto", "light", "dark" }
      [] key = "max_history_points" -> IsInt(value) /\ value.n >= 100
      [] key \in { "critical_threshold_cpu", "critical_threshold_memory",
                   "critical_threshold_disk" } ->
            IsNumber(value) /\ value.n >= 0 /\ value.n <= 100
      [] OTHER -> TRUE

\* How a call on the Config ended; `prior` is what get(key) returned before it.
NoCfgRet ==
    [op |-> "none", key |-> "none", value |-> None, kind |-> "none", prior |-> None,
     updates |-> << >>]

CfgEnded(op, key, value, kind) ==
    [op |-> op, key |-> key, value |-> value, kind |-> kind,
     prior |-> get(_config, key, None), updates |-> << >>]

\* Config() on a machine without a configuration file: the defaults, saved.
InitConfig ==
    /\ _config = SystemCompanionConfig
    /\ configFile = File(JSON, SystemCompanionConfig)
    /\ configOk = TRUE
    /\ cfgRet = NoCfgRet
    /\ cfgCalls = MaxCfgCalls

\* Config.set(key, value): the key is checked, the value validated, the field
\* assigned and the whole configuration saved; each failure raises
\* ConfigurationError from where it happens.
Set(key, value) ==
    /\ cfgCalls > 0
    /\ cfgCalls' = cfgCalls - 1
    /\ IF ~hasattr(_config, key) \/ ~_validate_value(key, value)
       THEN /\ cfgRet' = CfgEnded("set", key, value, "raise")
            /\ UNCHANGED << _config, configFile >>
       ELSE /\ _config' = [_config EXCEPT ![key] = value]
            /\ configFile' = WriteFile(configFile, _config', configOk)
            /\ cfgRet' = CfgEnded("set", key, value, IF configOk THEN "return" ELSE "raise")
    /\ UNCHANGED << configOk, engineVars >>

\* update(updates) on the configuration `config` saved in `file`: set(key, value)
\* for each pair in the order of the dict, until one raises.
RECURSIVE update(_, _, _, _)
update(config, file, ok, updates) ==
    IF updates = << >>
    THEN [config |-> config, file |-> file, kind |-> "return"]
    ELSE LET key == Head(updates).key
             value == Head(updates).value
             assigned == [config EXCEPT ![key] = value]
         IN  IF ~hasattr(config, key) \/ ~_validate_value(key, value)
             THEN [config |-> config, file |-> file, kind |-> "raise"]
             ELSE IF ~ok
                  THEN [config |-> assigned, file |-> WriteFile(file, assigned, ok),
                        kind |-> "raise"]
                  ELSE update(assigned, WriteFile(file, assigned, ok), ok, Tail(updates))

\* Config.update(updates)
Update(updates) ==
    /\ cfgCalls > 0
    /\ cfgCalls' = cfgCalls - 1
    /\ LET r == update(_config, configFile, configOk, updates) IN
        /\ _config' = r.config
        /\ configFile' = r.file
        /\ cfgRet' = [CfgEnded("update", "none", None, r.kind) EXCEPT !.updates = updates]
    /\ UNCHANGED << configOk, engineVars >>

\* Config() in a later session: _load_config reads the file when there is one,
\* and saves the defaults when there is none.
NewConfig ==
    /\ cfgRet # NoCfgRet
    /\ _config' = IF configFile.kind = JSON THEN configFile.data ELSE SystemCompanionConfig
    /\ configFile' = IF configFile.kind = Absent
                     THEN WriteFile(configFile, SystemCompanionConfig, configOk)
                     ELSE configFile
    /\ cfgRet' = NoCfgRet
    /\ UNCHANGED << configOk, cfgCalls, engineVars >>

\* From now on the configuration file cannot be written.
ConfigDiskFails ==
    /\ configOk
    /\ cfgRet = NoCfgRet
    /\ configOk' = FALSE
    /\ UNCHANGED << _config, configFile, cfgRet, cfgCalls, engineVars >>

\* _save_last_run_state with the given in-memory values.
SaveState(ts, fw, sm, nd, sata, nvme) ==
    WriteFile(stateFile, StateJson(ts, fw, sm, nd, sata, nvme), diskOk)

InitWith(ncalls, nfaults) ==
    /\ up = FALSE
    /\ tasks = _initialize_tasks
    /\ task_history = << >>
    /\ firmware_no_supported_hardware = FALSE
    /\ smartctl_not_found = FALSE
    /\ no_smart_devices_found = FALSE
    /\ has_sata_devices = FALSE
    /\ has_nvme_devices = FALSE
    /\ stateFile = NoStateFile
    /\ historyFile = NoHistoryFile
    /\ now = 0
    /\ pc = [c \in Callers |-> "idle"]
    /\ loc = [c \in Callers |-> BlankLoc]
    /\ ret = [c \in Callers |-> NoRet]
    /\ calls = ncalls
    /\ faults = nfaults
    /\ diskOk = TRUE
    /\ InitConfig

Init == InitWith(MaxCalls, MaxFaults)

\* ------------------------------------------------------ external commands
\* An enumeration ends with the lines it printed or raises (TimeoutExpired); when
\* the program is not installed the shell exits with 127 and prints nothing on
\* stdout, and the exit code is not looked at.
EnumOutcomes(outputs) ==
    { [kind |-> "ok", lines |-> l] : l \in outputs }
    \cup { [kind |-> "timeout", lines |-> << >>], [kind |-> "absent", lines |-> << >>] }

Fault(kind) == IF kind = "ok" THEN 0 ELSE 1

\* bool(devices) of one class, False when the enumeration raised.
HasSata(o) == o.kind = "ok" /\ ParseSata(o.lines) # << >>
HasNvme(o) == o.kind = "ok" /\ ParseNvme(o.lines) # << >>

\* How the enumeration of one class can end, and whether it found a device.
SataScans ==
    { [kind |-> o.kind, has |-> HasSata(o)] : o \in EnumOutcomes(SmartctlScanOutputs) }
NvmeScans ==
    { [kind |-> o.kind, has |-> HasNvme(o)] : o \in EnumOutcomes(NvmeListOutputs) }

\* A scan with one try block around both enumerations: when the first raises,
\* the second is not made.
ScanInOneTryBlock(ts, fw, sm, nd, sata, nvme) ==
    LET second == IF sata.kind = "timeout" THEN has_nvme_devices ELSE nvme.has IN
    /\ has_sata_devices' = sata.has
    /\ has_nvme_devices' = second
    /\ stateFile' = SaveState(ts, fw, sm, nd, sata.has, second)

\* scan_storage_devices on an engine whose other fields are ts, fw, sm, nd, when
\* the enumerations end as sata and nvme: each class is enumerated in its own
\* try block, then the state is saved.
scan_storage_devices(ts, fw, sm, nd, sata, nvme) ==
    /\ has_sata_devices' = sata.has
    /\ has_nvme_devices' = nvme.has
    /\ stateFile' = SaveState(ts, fw, sm, nd, sata.has, nvme.has)

\* ------------------------------------------------------------- life cycle
\* MaintenanceManager(): registry, history load, flags False, state load, scan.
Construct ==
    /\ ~up
    /\ up' = TRUE
    /\ tasks' = LoadLastRun(stateFile, _initialize_tasks)
    /\ task_history' = LoadHistory(historyFile, << >>)
    /\ firmware_no_supported_hardware' =
           LoadFlag(stateFile, "firmware_no_supported_hardware", FALSE)
    /\ smartctl_not_found' = LoadFlag(stateFile, "smartctl_not_found", FALSE)
    /\ no_smart_devices_found' = LoadFlag(stateFile, "no_smart_devices_found", FALSE)
    /\ \E sata \in SataScans, nvme \in NvmeScans :
          scan_storage_devices(tasks', firmware_no_supported_hardware',
                               smartctl_not_found', no_smart_devices_found', sata, nvme)
    /\ ret' = [c \in Callers |-> NoRet]
    /\ UNCHANGED << historyFile, now, pc, loc, budgetVars >>
    /\ UNCHANGED cfgVars

\* The process ends while no call is in flight; the files stay. The fields keep
\* the values the ended engine had until the next engine is constructed.
Shutdown ==
    /\ up
    /\ \A c \in Callers : pc[c] = "idle"
    /\ up' = FALSE
    /\ UNCHANGED << memVars, fileVars, now, callVars, budgetVars >>
    /\ UNCHANGED cfgVars

\* Between two sessions the state file is deleted.
DeleteStateFile ==
    /\ ~up
    /\ stateFile.kind # Absent
    /\ stateFile' = NoStateFile
    /\ UNCHANGED << up, memVars, historyFile, now, callVars, budgetVars >>
    /\ UNCHANGED cfgVars

\* Between two sessions the state file is damaged (it no longer parses).
DamageStateFile ==
    /\ ~up
    /\ stateFile.kind = JSON
    /\ stateFile' = CorruptStateFile
    /\ UNCHANGED << up, memVars, historyFile, now, callVars, budgetVars >>
    /\ UNCHANGED cfgVars

\* The data directory stops being writable (permissions, read-only file system, a
\* full disk) and stays so.
DiskFails ==
    /\ diskOk
    /\ diskOk' = FALSE
    /\ UNCHANGED << up, memVars, fileVars, now, callVars, calls, faults >>
    /\ UNCHANGED cfgVars

\* ------------------------------------------------------------ public calls
\* A caller can make a call; the calls that run or schedule tasks are counted.
Idle(c) == up /\ pc[c] = "idle"
CanCall(c) == Idle(c) /\ calls > 0

\* How a call that ended is recorded for its caller.
Returned(op, arg, value, l) ==
    [seq |-> l.seq, op |-> op, arg |-> arg, kind |-> "return", value |-> value,
     hist0 |-> l.hist0, found |-> l.found, elevated |-> l.elevated, limit |-> -1,
     scripts |-> l.scripts]

Raised(op, arg, l) ==
    [seq |-> l.seq, op |-> op, arg |-> arg, kind |-> "raise", value |-> << >>,
     hist0 |-> l.hist0, found |-> l.found, elevated |-> l.elevated, limit |-> -1,
     scripts |-> l.scripts]

\* The locals of a call that ends in the step that makes it.
CallLoc == [BlankLoc EXCEPT !.seq = calls, !.hist0 = Len(task_history)]

Registered(id) == id \in TaskIds

\* scan_storage_devices() called by the presentation layer.
ScanStorageDevices(c) ==
    /\ Idle(c)
    /\ \E sata \in SataScans, nvme \in NvmeScans :
          /\ scan_storage_devices(tasks, firmware_no_supported_hardware,
                                  smartctl_not_found, no_smart_devices_found, sata, nvme)
          /\ ret' = [ret EXCEPT ![c] = Returned("scan_storage_devices", "none",
                                                << sata, nvme >>, CallLoc)]
    /\ calls' = calls
    /\ UNCHANGED << up, tasks, task_history, firmware_no_supported_hardware,
                    smartctl_not_found, no_smart_devices_found, historyFile, now,
                    pc, loc, faults, diskOk >>
    /\ UNCHANGED cfgVars

\* clear_task_history(): the list is emptied, the file removed when it exists.
ClearTaskHistory(c) ==
    /\ Idle(c)
    /\ historyFile' = UnlinkFile(historyFile, diskOk)
    /\ task_history' = << >>
    /\ calls' = calls
    /\ ret' = [ret EXCEPT ![c] = Returned("clear_task_history", "none", << >>, CallLoc)]
    /\ UNCHANGED << up, tasks, flagVars, stateFile, now, pc, loc, faults, diskOk >>
    /\ UNCHANGED cfgVars

\* schedule_task(task_id, run_at): next_run is set and the status made PENDING.
\* get_task_history(limit) reads the history in memory and changes nothing.
GetTaskHistory(c, limit) ==
    /\ Idle(c)
    /\ ret' = [ret EXCEPT ![c] =
                  [Returned("get_task_history", "none",
                            get_task_history(task_history, limit), CallLoc)
                      EXCEPT !.limit = limit]]
    /\ UNCHANGED << up, tasks, task_history, flagVars, stateFile, historyFile, now,
                    pc, loc, calls, faults, diskOk >>
    /\ UNCHANGED cfgVars

ScheduleTask(c, id, run_at) ==
    /\ Idle(c)
    /\ IF Registered(id)
       THEN /\ calls > 0
            /\ calls' = calls - 1
            /\ tasks' = [tasks EXCEPT ![id].next_run = Some(run_at), ![id].status = PENDING]
            /\ ret' = [ret EXCEPT ![c] = Returned("schedule_task", id, << >>, CallLoc)]
       ELSE /\ UNCHANGED << tasks, calls >>
            /\ ret' = [ret EXCEPT ![c] = Raised("schedule_task", id, CallLoc)]
    /\ UNCHANGED << up, task_history, flagVars, fileVars, now, pc, loc, faults,
                    diskOk >>
    /\ UNCHANGED cfgVars

\* A cancel that resets the status as schedule_task does.
CancelResettingStatus(c, id) ==
    /\ Idle(c)
    /\ IF Registered(id)
       THEN /\ calls > 0
            /\ calls' = calls - 1
            /\ tasks' = [tasks EXCEPT ![id].next_run = Null, ![id].status = PENDING]
            /\ ret' = [ret EXCEPT ![c] = Returned("cancel_scheduled_task", id, << >>, CallLoc)]
       ELSE /\ UNCHANGED << tasks, calls >>
            /\ ret' = [ret EXCEPT ![c] = Raised("cancel_scheduled_task", id, CallLoc)]
    /\ UNCHANGED << up, task_history, flagVars, fileVars, now, pc, loc, faults,
                    diskOk >>
    /\ UNCHANGED cfgVars

\* cancel_scheduled_task(task_id)
CancelScheduledTask(c, id) ==
    /\ Idle(c)
    /\ IF Registered(id)
       THEN /\ calls > 0
            /\ calls' = calls - 1
            /\ tasks' = [tasks EXCEPT ![id].next_run = Null]
            /\ ret' = [ret EXCEPT ![c] = Returned("cancel_scheduled_task", id, << >>, CallLoc)]
       ELSE /\ UNCHANGED << tasks, calls >>
            /\ ret' = [ret EXCEPT ![c] = Raised("cancel_scheduled_task", id, CallLoc)]
    /\ UNCHANGED << up, task_history, flagVars, fileVars, now, pc, loc, faults,
                    diskOk >>
    /\ UNCHANGED cfgVars

\* ---------------------------------------------------------------- run_task
DeviceTasks == { "check_disk_health", "check_nvme_health" }

\* The execution branch run_task takes for a registered id.
Branch(id) ==
    IF Registry[id].requires_sudo /\ Len(Registry[id].commands) > 1 /\ id \notin DeviceTasks
    THEN "batch"
    ELSE IF id \in DeviceTasks THEN "enum" ELSE "command"

\* command.replace('sudo ', ''): every 'sudo ' of the command is removed.
NotSudo(tok) == tok # SUDO
StripSudo(command) == SelectSeq(command, NotSudo)

\* The rewriting of one command of a task that requires privileges.
Elevate(command) ==
    IF command # << >> /\ command[1] = SUDO THEN << PKEXEC >> \o Tail(command)
    ELSE IF command # << >> /\ command[1] = PKEXEC THEN command
    ELSE << PKEXEC >> \o command

\* A script that goes on after a command that exits non-zero.
RECURSIVE ScriptRunOn(_, _, _, _)
ScriptRunOn(commands, i, failAt, text) ==
    IF i > Len(commands) THEN << "All commands completed successfully" >>
    ELSE << "Executing command", ToString(i) >> \o StripSudo(commands[i]) \o
         ( IF i = failAt THEN << >> ELSE << text, "Command completed", ToString(i) >> ) \o
         ScriptRunOn(commands, i + 1, failAt, text)

\* What the script of _run_commands_batch prints from command i on, when command
\* failAt exits non-zero (0: none does): `set -e` ends the script there.
RECURSIVE ScriptRun(_, _, _, _)
ScriptRun(commands, i, failAt, text) ==
    IF i > Len(commands) THEN << "All commands completed successfully" >>
    ELSE << "Executing command", ToString(i) >> \o StripSudo(commands[i]) \o
         ( IF i = failAt THEN << >>
           ELSE << text, "Command completed", ToString(i) >> \o
                ScriptRun(commands, i + 1, failAt, text) )

ScriptStdout(commands, failAt, text) ==
    << "Starting maintenance commands..." >> \o ScriptRun(commands, 1, failAt, text)

\* The ways one elevated run of the script can end: it exits after its last
\* command, or at its first or its last command when that one fails; pkexec
\* times out; the script or pkexec cannot be started.
BatchOutcomes(commands, texts) ==
    UNION { { [kind |-> "exit", failAt |-> k, text |-> t] :
                t \in IF k = 1 THEN { "out" } ELSE texts } : k \in { 0, 1, Len(commands) } }
    \cup { [kind |-> "timeout", failAt |-> 0, text |-> "out"],
           [kind |-> "oserror", failAt |-> 0, text |-> "out"] }

BatchFault(o) == IF o.kind = "exit" /\ o.failAt = 0 THEN 0 ELSE 1

\* One elevated invocation for every command of the script.
BatchSessionsPerCommand(commands, o) == Len(commands)

\* Lines 626-632: the whole script is handed to one pkexec invocation, which
\* is not reached when writing the script or starting the program fails.
BatchSessions(commands, o) == IF o.kind = "oserror" THEN 0 ELSE 1

\* Lines 606-640: the script is created with delete=False and os.unlink is
\* reached only when subprocess.run returns; a session that times out or is
\* not started goes to the handler of line 647 instead, and its script stays
\* in the temporary directory.
ScriptsLeft(o) == IF o.kind = "exit" THEN 0 ELSE 1

\* A batch run that reports success whatever the script did.
BatchIgnoringExit(commands, o) ==
    [success |-> TRUE, output |-> ScriptStdout(commands, o.failAt, o.text), error |-> Null]

\* (success, output, error) of _run_commands_batch(commands) under outcome o.
_run_commands_batch(commands, o) ==
    CASE o.kind = "exit" ->
            [success |-> o.failAt = 0,
             output |-> ScriptStdout(commands, o.failAt, o.text),
             error |-> IF o.failAt = 0 THEN Null ELSE Some(<< "stderr" >>)]
      [] o.kind = "timeout" ->
            [success |-> FALSE, output |-> << >>,
             error |-> Some(<< "Command", PKEXEC, "script", "timed out after 600 seconds" >>)]
      [] o.kind = "oserror" ->
            [success |-> FALSE, output |-> << >>, error |-> Some(<< "OSError" >>)]

\* f"Failed: {error}"
FailedText(error) == << "Failed: " >> \o (IF error = Null THEN << "None" >> ELSE error[1])

\* A result text that does not look at the outcome.
ResultTextSuccess(success, error) == << "Success" >>

ResultText(success, error) == IF success THEN << "Success" >> ELSE FailedText(error)

\* An unknown id that is recorded as a failed run before the error is raised.
RaiseNotFoundRecorded(c, id) ==
    /\ ret' = [ret EXCEPT ![c] = Raised("run_task", id, CallLoc)]
    /\ task_history' =
           Append(task_history,
                  MaintenanceResult(id, FALSE, << >>, Some(<< "not found" >>), 0, now))
    /\ UNCHANGED << up, tasks, flagVars, fileVars, now, pc, loc, budgetVars >>

\* Lines 412-413 for an id the registry does not hold: MaintenanceError is raised
\* (and re-raised by the handler of line 595).
RaiseNotFound(c, id) ==
    /\ ret' = [ret EXCEPT ![c] = Raised("run_task", id, CallLoc)]
    /\ UNCHANGED << up, memVars, fileVars, now, pc, loc, budgetVars >>

\* Lines 415-426: the task is RUNNING, last_run is now, the state is saved.
BeginTask(c, id, nested, l) ==
    /\ tasks' = [tasks EXCEPT ![id].status = RUNNING, ![id].last_run = Some(now)]
    /\ stateFile' = SaveState(tasks', firmware_no_supported_hardware, smartctl_not_found,
                              no_smart_devices_found, has_sata_devices, has_nvme_devices)
    /\ loc' = [loc EXCEPT ![c] =
                  [l EXCEPT !.task_id = id, !.nested = nested, !.success = TRUE,
                            !.output = << >>, !.error = Null, !.start_time = now,
                            !.devices = << >>, !.idx = 1, !.result = << >>,
                            !.entries = << >>, !.run0 = Len(task_history),
                            !.found = -1, !.absent = FALSE, !.session = NoSession]]
    /\ pc' = [pc EXCEPT ![c] = Branch(id)]
    /\ now' = now + 1
    /\ UNCHANGED << up, task_history, flagVars, historyFile, faults, diskOk >>

\* A run_task that waits while the task is Running.
RunTaskUnlessRunning(c, id) ==
    /\ Idle(c)
    /\ IF Registered(id)
       THEN /\ calls > 0
            /\ tasks[id].status # RUNNING
            /\ calls' = calls - 1
            /\ BeginTask(c, id, FALSE, [CallLoc EXCEPT !.op = "run_task"])
            /\ ret' = [ret EXCEPT ![c] = NoRet]
       ELSE RaiseNotFound(c, id)
    /\ UNCHANGED cfgVars

\* run_task(task_id) called by the presentation layer.
RunTask(c, id) ==
    /\ Idle(c)
    /\ IF Registered(id)
       THEN /\ calls > 0
            /\ calls' = calls - 1
            /\ BeginTask(c, id, FALSE, [CallLoc EXCEPT !.op = "run_task"])
            /\ ret' = [ret EXCEPT ![c] = NoRet]
       ELSE RaiseNotFound(c, id)
    /\ UNCHANGED cfgVars

\* Line 430: the commands of the task run as one elevated script.
RunBatch(c) ==
    /\ pc[c] = "batch"
    /\ \E o \in BatchOutcomes(Registry[loc[c].task_id].commands,
                               IF loc[c].task_id = "update_firmware"
                               THEN { "out", FirmwareMarker } ELSE { "out" }) :
        /\ BatchFault(o) <= faults
        /\ faults' = faults - BatchFault(o)
        /\ LET r == _run_commands_batch(Registry[loc[c].task_id].commands, o)
           IN loc' = [loc EXCEPT ![c].success = r.success, ![c].output = r.output,
                                 ![c].error = r.error, ![c].session = o,
                                 ![c].scripts = @ + ScriptsLeft(o),
                                 ![c].elevated = @ + BatchSessions(
                                     Registry[loc[c].task_id].commands, o)]
    /\ pc' = [pc EXCEPT ![c] = "finish"]
    /\ now' = now + 1
    /\ UNCHANGED << up, memVars, fileVars, ret, calls, diskOk >>
    /\ UNCHANGED cfgVars

\* str(TimeoutExpired) of a command run with subprocess.run.
TimedOutText(command) == << "Command" >> \o command \o << "timed out" >>

\* An empty device list that raises nothing: the loop over it does nothing.
ZeroDevicesIgnored(l, disk) == [l EXCEPT !.found = 0]

\* Lines 448-451 and 469-471 (490-493 and 511-513): the MaintenanceError raised
\* for an empty device list is caught by the `except Exception` of the branch.
ZeroDevices(l, disk) ==
    [l EXCEPT !.success = FALSE,
              !.error = Some(<< IF disk THEN NoDisksMsg ELSE NoNvmeMsg >>),
              !.found = 0]

\* Lines 433-453 and 474-495: the devices of the task's class are enumerated
\* inside the try block of the branch, so the MaintenanceError raised for an
\* empty list is caught by its `except Exception` like a timeout of the scan.
Enumerate(c) ==
    /\ pc[c] = "enum"
    /\ LET disk == loc[c].task_id = "check_disk_health" IN
       \E o \in EnumOutcomes(IF disk THEN SmartctlScanOutputs ELSE NvmeListOutputs) :
        LET devices == IF disk THEN ParseSata(o.lines) ELSE ParseNvme(o.lines) IN
        /\ Fault(o.kind) <= faults
        /\ faults' = faults - Fault(o.kind)
        /\ IF o.kind = "timeout"
           THEN /\ loc' = [loc EXCEPT
                            ![c].success = FALSE,
                            ![c].error = Some(TimedOutText(
                                IF disk THEN << "smartctl --scan" >> ELSE << "nvme list" >>))]
                /\ pc' = [pc EXCEPT ![c] = "finish"]
                /\ UNCHANGED << flagVars, stateFile >>
           ELSE /\ has_sata_devices' = IF disk THEN devices # << >> ELSE has_sata_devices
                /\ has_nvme_devices' = IF disk THEN has_nvme_devices ELSE devices # << >>
                /\ no_smart_devices_found' =
                       IF disk THEN devices = << >> ELSE no_smart_devices_found
                /\ UNCHANGED << firmware_no_supported_hardware, smartctl_not_found >>
                /\ stateFile' = SaveState(tasks, firmware_no_supported_hardware,
                                          smartctl_not_found, no_smart_devices_found',
                                          has_sata_devices', has_nvme_devices')
                /\ IF devices = << >>
                   THEN /\ loc' = [loc EXCEPT ![c] = [ZeroDevices(loc[c], disk) EXCEPT
                                                         !.absent = (o.kind = "absent")]]
                        /\ pc' = [pc EXCEPT ![c] = "finish"]
                   ELSE /\ loc' = [loc EXCEPT ![c].devices = devices, ![c].idx = 1,
                                              ![c].found = Len(devices)]
                        /\ pc' = [pc EXCEPT ![c] = "device"]
    /\ now' = now + 1
    /\ UNCHANGED << up, tasks, task_history, historyFile, ret, calls, diskOk >>
    /\ UNCHANGED cfgVars

\* The ways one external command run through the shell can end: exit code 0,
\* another exit code, TimeoutExpired.
CommandOutcomes == { "ok", "nonzero", "timeout" }

\* What a failing diagnostic command can print on stderr.
DeviceStderr(id) ==
    IF id = "check_disk_health" THEN { << "stderr" >>, << SmartctlMarker >> }
    ELSE { << "stderr" >> }

\* The pc after step idx of a loop over n items.
NextInLoop(idx, n, again) == IF idx < n THEN again ELSE "finish"

\* Lines 455-468 and 497-510: one elevated diagnostic command for devices[idx].
\* A timeout leaves the loop through the branch's except block.
CheckDevice(c) ==
    /\ pc[c] = "device"
    /\ LET l == loc[c]
           dev == l.devices[l.idx]
           cmd == IF l.task_id = "check_disk_health"
                  THEN << PKEXEC, "smartctl -a", dev >>
                  ELSE << PKEXEC, "nvme smart-log", dev >>
       IN \E k \in CommandOutcomes, stderr \in DeviceStderr(l.task_id) :
            /\ Fault(k) <= faults
            /\ faults' = faults - Fault(k)
            /\ k # "nonzero" => stderr = << "stderr" >>
            /\ CASE k = "ok" ->
                     /\ loc' = [loc EXCEPT ![c].output = @ \o << "Device:", dev, "out" >>,
                                           ![c].elevated = @ + 1,
                                           ![c].idx = @ + 1]
                     /\ pc' = [pc EXCEPT ![c] = NextInLoop(l.idx, Len(l.devices), "device")]
                 [] k = "nonzero" ->
                     /\ loc' = [loc EXCEPT ![c].output = @ \o << "Device:", dev, "out" >>,
                                           ![c].success = FALSE,
                                           ![c].error = Some(stderr),
                                           ![c].elevated = @ + 1,
                                           ![c].idx = @ + 1]
                     /\ pc' = [pc EXCEPT ![c] = NextInLoop(l.idx, Len(l.devices), "device")]
                 [] k = "timeout" ->
                     /\ loc' = [loc EXCEPT ![c].success = FALSE,
                                           ![c].elevated = @ + 1,
                                           ![c].error = Some(TimedOutText(cmd))]
                     /\ pc' = [pc EXCEPT ![c] = "finish"]
    /\ now' = now + 1
    /\ UNCHANGED << up, memVars, fileVars, ret, calls, diskOk >>
    /\ UNCHANGED cfgVars

\* Lines 516-553: command idx of the task runs on its own; every outcome is
\* handled inside the loop, which goes on to the next command.
RunCommand(c) ==
    /\ pc[c] = "command"
    /\ LET l == loc[c]
           task == Registry[l.task_id]
           command == IF task.requires_sudo THEN Elevate(task.commands[l.idx])
                      ELSE task.commands[l.idx]
           head == << "Command:" >> \o command
       IN \E k \in CommandOutcomes :
            /\ Fault(k) <= faults
            /\ faults' = faults - Fault(k)
            /\ loc' = [loc EXCEPT
                   ![c].idx = @ + 1,
                   ![c].elevated = @ + (IF task.requires_sudo THEN 1 ELSE 0),
                   ![c].success = IF k = "ok" THEN @ ELSE FALSE,
                   ![c].error =
                       CASE k = "ok" -> @
                         [] k = "nonzero" -> Some(<< "Command failed:", "stderr" >>)
                         [] k = "timeout" -> Some(<< "Command timed out:" >> \o command),
                   ![c].output =
                       CASE k = "ok" -> @ \o head \o << "Output:", "out" >>
                         [] k = "nonzero" -> @ \o head \o << "Error:", "stderr" >>
                         [] k = "timeout" -> @ \o head \o << "Error: Timeout" >>]
            /\ pc' = [pc EXCEPT ![c] = NextInLoop(l.idx, Len(task.commands), "command")]
    /\ now' = now + 1
    /\ UNCHANGED << up, memVars, fileVars, ret, calls, diskOk >>
    /\ UNCHANGED cfgVars

\* A status that does not look at the outcome.
FinalStatusCompleted(success) == COMPLETED

\* Lines 574 and 692: TaskStatus.COMPLETED if success else TaskStatus.FAILED
FinalStatus(success) == IF success THEN COMPLETED ELSE FAILED

\* A history that records the successful runs only.
AppendResultOnSuccess(h, r) == IF r.success THEN Append(h, r) ELSE h

\* Line 589: self.task_history.append(result)
AppendResult(h, r) == Append(h, r)

\* Lines 555-589: the output is searched for the two markers (and the state is
\* saved for these two tasks), the task gets its final status and result text,
\* the result is appended to the history, and _save_task_history builds the
\* entries it is about to write.
Finish(c) ==
    /\ pc[c] = "finish"
    /\ LET l == loc[c]
           id == l.task_id
           r == MaintenanceResult(id, l.success, l.output, l.error, now - l.start_time, now)
       IN /\ firmware_no_supported_hardware' =
                 IF id = "update_firmware" THEN Contains(l.output, FirmwareMarker)
                 ELSE firmware_no_supported_hardware
          /\ smartctl_not_found' =
                 IF id = "check_disk_health"
                 THEN \/ l.error # Null /\ Contains(l.error[1], SmartctlMarker)
                      \/ Contains(l.output, SmartctlMarker)
                 ELSE smartctl_not_found
          /\ tasks' = [tasks EXCEPT
                         ![id].status = FinalStatus(l.success),
                         ![id].result = Some(ResultText(l.success, l.error))]
          /\ IF id \in { "update_firmware", "check_disk_health" }
             THEN stateFile' = SaveState(tasks, firmware_no_supported_hardware',
                                         smartctl_not_found', no_smart_devices_found,
                                         has_sata_devices, has_nvme_devices)
             ELSE UNCHANGED stateFile
          /\ task_history' = AppendResult(task_history, r)
          /\ loc' = [loc EXCEPT ![c].result = << r >>,
                                ![c].entries = HistoryJson(task_history')]
    /\ pc' = [pc EXCEPT ![c] = "hist_write"]
    /\ UNCHANGED << up, no_smart_devices_found, has_sata_devices, has_nvme_devices,
                    historyFile, now, ret, budgetVars >>
    /\ UNCHANGED cfgVars

\* The locals of run_automated_cleanup once a run_task it called has returned r.
AfterNested(l, r) ==
    [BlankLoc EXCEPT !.op = l.op, !.seq = l.seq, !.hist0 = l.hist0, !.queue = l.queue,
                     !.elevated = l.elevated, !.scripts = l.scripts,
                     !.results = Append(l.results, r)]

\* A history save whose write error is not caught: it leaves run_task as an
\* exception, which the handler of line 595 raises to the caller.
WriteHistoryUncaught(c) ==
    /\ pc[c] = "hist_write"
    /\ historyFile' = WriteFile(historyFile, loc[c].entries, diskOk)
    /\ IF loc[c].nested
       THEN /\ loc' = [loc EXCEPT ![c] = AfterNested(loc[c], loc[c].result[1])]
            /\ pc' = [pc EXCEPT ![c] = "cl_next"]
            /\ UNCHANGED ret
       ELSE /\ ret' = [ret EXCEPT ![c] =
                          IF diskOk
                          THEN Returned("run_task", loc[c].task_id, loc[c].result, loc[c])
                          ELSE Raised("run_task", loc[c].task_id, loc[c])]
            /\ loc' = [loc EXCEPT ![c] = BlankLoc]
            /\ pc' = [pc EXCEPT ![c] = "idle"]
    /\ UNCHANGED << up, memVars, stateFile, now, budgetVars >>
    /\ UNCHANGED cfgVars

\* A save that dumps the history as it is when the file is written.
WriteHistoryFresh(c) ==
    /\ pc[c] = "hist_write"
    /\ historyFile' = WriteFile(historyFile, HistoryJson(task_history), diskOk)
    /\ IF loc[c].nested
       THEN /\ loc' = [loc EXCEPT ![c] = AfterNested(loc[c], loc[c].result[1])]
            /\ pc' = [pc EXCEPT ![c] = "cl_next"]
            /\ UNCHANGED ret
       ELSE /\ ret' = [ret EXCEPT ![c] =
                          Returned("run_task", loc[c].task_id, loc[c].result, loc[c])]
            /\ loc' = [loc EXCEPT ![c] = BlankLoc]
            /\ pc' = [pc EXCEPT ![c] = "idle"]
    /\ UNCHANGED << up, memVars, stateFile, now, budgetVars >>
    /\ UNCHANGED cfgVars

\* Lines 378-380 and 592-593: the entries are written over the history file
\* and run_task returns its result.
WriteHistory(c) ==
    /\ pc[c] = "hist_write"
    /\ historyFile' = WriteFile(historyFile, loc[c].entries, diskOk)
    /\ IF loc[c].nested
       THEN /\ loc' = [loc EXCEPT ![c] = AfterNested(loc[c], loc[c].result[1])]
            /\ pc' = [pc EXCEPT ![c] = "cl_next"]
            /\ UNCHANGED ret
       ELSE /\ ret' = [ret EXCEPT ![c] =
                          Returned("run_task", loc[c].task_id, loc[c].result, loc[c])]
            /\ loc' = [loc EXCEPT ![c] = BlankLoc]
            /\ pc' = [pc EXCEPT ![c] = "idle"]
    /\ UNCHANGED << up, memVars, stateFile, now, budgetVars >>
    /\ UNCHANGED cfgVars

\* ---------------------------------------------------- run_automated_cleanup
\* A selection that looks at the priority only.
IsCleanupTaskOfAnyCategory(id) == Registry[id].priority \in { LOW, MEDIUM }

IsCleanupTask(id) ==
    /\ Registry[id].category \in { "System Cleanup", "User Cleanup", "Package Management" }
    /\ Registry[id].priority \in { LOW, MEDIUM }

RequiresSudo(id) == Registry[id].requires_sudo
NoSudo(id) == ~Registry[id].requires_sudo

cleanup_tasks == SelectSeq(TaskOrder, IsCleanupTask)
sudo_tasks == SelectSeq(cleanup_tasks, RequiresSudo)
non_sudo_tasks == SelectSeq(cleanup_tasks, NoSudo)

\* all_sudo_commands: the commands of the tasks of ids, in order.
RECURSIVE AllCommands(_)
AllCommands(ids) ==
    IF ids = << >> THEN << >> ELSE Registry[Head(ids)].commands \o AllCommands(Tail(ids))

\* Lines 654-667: the eligible tasks are selected and split.
RunAutomatedCleanup(c) ==
    /\ CanCall(c)
    /\ calls' = calls - 1
    /\ loc' = [loc EXCEPT ![c] = [CallLoc EXCEPT !.op = "run_automated_cleanup",
                                                 !.queue = non_sudo_tasks]]
    /\ pc' = [pc EXCEPT ![c] = IF sudo_tasks # << >> THEN "cl_batch" ELSE "cl_next"]
    /\ ret' = [ret EXCEPT ![c] = NoRet]
    /\ UNCHANGED << up, memVars, fileVars, now, faults, diskOk >>
    /\ UNCHANGED cfgVars

\* Lines 670-696: one elevated script for the commands of every privileged
\* task; its outcome becomes one result per task and each task's status.
CleanupBatch(c) ==
    /\ pc[c] = "cl_batch"
    /\ \E o \in BatchOutcomes(AllCommands(sudo_tasks), { "out" }) :
        /\ BatchFault(o) <= faults
        /\ faults' = faults - BatchFault(o)
        /\ LET r == _run_commands_batch(AllCommands(sudo_tasks), o) IN
            /\ loc' = [loc EXCEPT ![c].results =
                          [i \in 1..Len(sudo_tasks) |->
                              MaintenanceResult(sudo_tasks[i], r.success, r.output, r.error,
                                                0, now + 1)],
                                  ![c].scripts = @ + ScriptsLeft(o),
                                  ![c].elevated = @ + BatchSessions(AllCommands(sudo_tasks), o)]
            /\ tasks' = [id \in TaskIds |->
                           IF RequiresSudo(id) /\ IsCleanupTask(id)
                           THEN [tasks[id] EXCEPT
                                   !.status = FinalStatus(r.success),
                                   !.result = Some(ResultText(r.success, r.error))]
                           ELSE tasks[id]]
    /\ pc' = [pc EXCEPT ![c] = "cl_next"]
    /\ now' = now + 1
    /\ UNCHANGED << up, task_history, flagVars, fileVars, ret, calls, diskOk >>
    /\ UNCHANGED cfgVars

\* Lines 715-729: the next task that needs no privileges goes through run_task;
\* when none is left the results are returned.
CleanupNext(c) ==
    /\ pc[c] = "cl_next"
    /\ IF loc[c].queue = << >>
       THEN /\ ret' = [ret EXCEPT ![c] =
                          Returned("run_automated_cleanup", "none", loc[c].results, loc[c])]
            /\ loc' = [loc EXCEPT ![c] = BlankLoc]
            /\ pc' = [pc EXCEPT ![c] = "idle"]
            /\ UNCHANGED << up, memVars, fileVars, now, faults, diskOk >>
       ELSE /\ BeginTask(c, Head(loc[c].queue), TRUE, [loc[c] EXCEPT !.queue = Tail(@)])
            /\ UNCHANGED ret
    /\ UNCHANGED calls
    /\ UNCHANGED cfgVars

\* ------------------------------------------------------------ specification
\* The ids and times the presentation layer passes.
CalledIds ==
    { "update_firmware", "clean_browser_cache", "check_disk_health", "check_nvme_health" }
    \cup UnknownIds
ScheduledIds == { "clean_package_cache" } \cup UnknownIds
ScheduleTimes == { 0 }

\* The steps of a call in flight.
Step(c) ==
    \/ RunBatch(c)
    \/ Enumerate(c)
    \/ CheckDevice(c)
    \/ RunCommand(c)
    \/ Finish(c)
    \/ WriteHistory(c)
    \/ CleanupBatch(c)
    \/ CleanupNext(c)

\* One session of the engine on a machine whose data directory is writable:
\* the operations on tasks and history, called by one thread, each call after
\* the other (the device scan has its own specification, SpecScan).
Next ==
    \/ Construct
    \/ \E id \in CalledIds : RunTask("t1", id)
    \/ Step("t1")
    \/ RunAutomatedCleanup("t1")
    \/ ClearTaskHistory("t1")
    \/ \E id \in ScheduledIds, t \in ScheduleTimes : ScheduleTask("t1", id, t)
    \/ \E id \in ScheduledIds : CancelScheduledTask("t1", id)

Spec == Init /\ [][Next]_vars

\* The ids whose runs set capability flags.
FlagIds == { "update_firmware", "check_disk_health" }

\* The persisted state over several sessions: the engine is constructed, runs
\* tasks, clears its history and is shut down; between sessions the state file
\* can be deleted or damaged, and the data directory can stop being writable.
NextStore ==
    \/ Construct
    \/ Shutdown
    \/ DeleteStateFile
    \/ DamageStateFile
    \/ DiskFails
    \/ \E id \in FlagIds : RunTask("t1", id)
    \/ RunBatch("t1")
    \/ Enumerate("t1")
    \/ CheckDevice("t1")
    \/ Finish("t1")
    \/ WriteHistory("t1")
    \/ ClearTaskHistory("t1")

InitStore == InitWith(MaxStoreCalls, MaxStoreFaults)

SpecStore == InitStore /\ [][NextStore]_vars

\* The runs earlier sessions made: HistoryCap - 1 runs of clean_package_cache
\* whose elevated session could not be started, each two clock ticks long.
PriorRuns == HistoryCap - 1
PriorHistory ==
    [i \in 1..PriorRuns |->
        MaintenanceResult("clean_package_cache", FALSE, << >>, Some(<< "OSError" >>),
                          2, 2 * i)]

\* The tasks of the engine that made these runs.
PriorTasks ==
    [_initialize_tasks EXCEPT
        !["clean_package_cache"] =
            [@ EXCEPT !.status = FAILED,
                      !.last_run = Some(2 * (PriorRuns - 1)),
                      !.result = Some(FailedText(Some(<< "OSError" >>)))]]

\* The engine that made the earlier runs has ended; its files are on disk.
InitCap ==
    /\ up = FALSE
    /\ tasks = PriorTasks
    /\ task_history = PriorHistory
    /\ firmware_no_supported_hardware = FALSE
    /\ smartctl_not_found = FALSE
    /\ no_smart_devices_found = FALSE
    /\ has_sata_devices = FALSE
    /\ has_nvme_devices = FALSE
    /\ stateFile = File(JSON, StateJson(PriorTasks, FALSE, FALSE, FALSE, FALSE, FALSE))
    /\ historyFile = File(JSON, HistoryJson(PriorHistory))
    /\ now = 2 * PriorRuns
    /\ pc = [c \in Callers |-> "idle"]
    /\ loc = [c \in Callers |-> BlankLoc]
    /\ ret = [c \in Callers |-> NoRet]
    /\ calls = MaxCapCalls
    /\ faults = MaxCapFaults
    /\ diskOk = TRUE
    /\ InitConfig

\* Sessions of an engine whose history is about to pass HistoryCap: it runs the
\* firmware update, is shut down and constructed again; the data directory can
\* stop being writable.
NextCap ==
    \/ Construct
    \/ Shutdown
    \/ DiskFails
    \/ RunTask("t1", "update_firmware")
    \/ RunBatch("t1")
    \/ Finish("t1")
    \/ WriteHistory("t1")

SpecCap == InitCap /\ [][NextCap]_vars

\* The registered tasks with two or more commands that run_task runs from their
\* command list, as one script or one by one.
MultiCommandIds ==
    { id \in TaskIds : Len(Registry[id].commands) >= 2 /\ Branch(id) \in { "batch", "command" } }

\* Single runs of the tasks with several commands, of which up to MaxCmdFaults
\* commands fail.
NextCmd ==
    \/ Construct
    \/ \E id \in MultiCommandIds : RunTask("t1", id)
    \/ RunBatch("t1")
    \/ RunCommand("t1")
    \/ Finish("t1")
    \/ WriteHistory("t1")

InitCmd == InitWith(MaxCmdCalls, MaxCmdFaults)

SpecCmd == InitCmd /\ [][NextCmd]_vars

\* The task the two threads run.
ConcIds == { "update_firmware" }

\* The presentation layer starts every run in a thread of its own and the
\* engine has no lock: the calls of two threads interleave at every step.
NextConc ==
    \/ Construct
    \/ \E c \in Callers, id \in ConcIds : RunTask(c, id)
    \/ \E c \in Callers : RunBatch(c)
    \/ \E c \in Callers : Finish(c)
    \/ \E c \in Callers : WriteHistory(c)

InitConc == InitWith(MaxConcCalls, MaxConcFaults)

SpecConc == InitConc /\ [][NextConc]_vars

\* The keys and values the callers of Config.set pass.
UnknownKeys == { "no_such_key" }
SetValues ==
    { int(-1), int(99), int(100), int(599), int(600), int(799), int(800), float(800),
      float(50), str("dark"), str("blue"), bool(TRUE) }

\* The dicts the callers of Config.update pass: up to MaxUpdates pairs with
\* different keys, in the order they were inserted.
UpdatePairs ==
    { [key |-> key, value |-> value] :
        key \in { "window_width", "theme" } \cup UnknownKeys,
        value \in { int(1400), int(799), str("dark") } }
Updates ==
    UNION { { u \in [1..n -> UpdatePairs] :
                \A i, j \in 1..n : u[i].key = u[j].key => i = j } : n \in 1..MaxUpdates }

\* The configuration over sessions: values are set, one by one and several at
\* once, the Config is constructed again from its file, and the file can stop
\* being writable.
NextConfig ==
    \/ \E key \in ConfigKeys \cup UnknownKeys, value \in SetValues : Set(key, value)
    \/ \E updates \in Updates : Update(updates)
    \/ NewConfig
    \/ ConfigDiskFails

SpecConfig == InitWith(0, 0) /\ [][NextConfig]_vars

\* The device scan and the disk check over several sessions: both set
\* has_sata_devices and save the state; the data directory can stop being
\* writable.
NextScan ==
    \/ Construct
    \/ Shutdown
    \/ DiskFails
    \/ ScanStorageDevices("t1")
    \/ RunTask("t1", "check_disk_health")
    \/ Enumerate("t1")
    \/ CheckDevice("t1")
    \/ Finish("t1")
    \/ WriteHistory("t1")

SpecScan == InitWith(MaxScanCalls, MaxScanFaults) /\ [][NextScan]_vars

\* A task is run, scheduled and cancelled in one session.
NextSched ==
    \/ Construct
    \/ RunTask("t1", "clean_package_cache")
    \/ RunBatch("t1")
    \/ Finish("t1")
    \/ WriteHistory("t1")
    \/ \E id \in ScheduledIds, t \in ScheduleTimes : ScheduleTask("t1", id, t)
    \/ \E id \in ScheduledIds : CancelScheduledTask("t1", id)

SpecSched == InitWith(MaxSchedCalls, MaxSchedFaults) /\ [][NextSched]_vars

\* The tasks run twice: one of each branch of run_task.
ResultIds == { "update_firmware", "clean_browser_cache", "check_disk_health" }

\* Tasks are run, and run again, in one session, alone and by the automated
\* cleanup.
NextResult ==
    \/ Construct
    \/ \E id \in ResultIds : RunTask("t1", id)
    \/ Step("t1")
    \/ RunAutomatedCleanup("t1")

SpecResult == InitWith(MaxResultCalls, MaxResultFaults) /\ [][NextResult]_vars

\* The limits get_task_history is called with: none, fewer than, as many as
\* and more than the records in memory.
HistoryLimits == { 0, 1, 2, DefaultLimit }

\* The history grows by one record per run and is read between the runs.
NextHist ==
    \/ Construct
    \/ RunTask("t1", "clean_package_cache")
    \/ RunBatch("t1")
    \/ Finish("t1")
    \/ WriteHistory("t1")
    \/ \E limit \in HistoryLimits : GetTaskHistory("t1", limit)

SpecHist == InitWith(MaxHistCalls, MaxHistFaults) /\ [][NextHist]_vars

\* ------------------------------------------------------------------ claims
\* The step in which a call of op by caller c ends: it returns or raises.
Ends(c, op) == ret'[c] # ret[c] /\ ret'[c].op = op

\* The step in which a run_task call made by caller c returns its result, to the
\* presentation layer or to run_automated_cleanup.
RunTaskReturns(c) == pc[c] = "hist_write" /\ pc'[c] # "hist_write"

\* C1: run_task on an id the registry does not hold raises MaintenanceError, and
\* the call leaves every task, the history in memory and on disk, the state file
\* and the five capability flags as they were.
C1_UnknownIdRaises ==
    [][\A c \in Callers :
          (Ends(c, "run_task") /\ ~Registered(ret'[c].arg))
          => /\ ret'[c].kind = "raise"
             /\ UNCHANGED << tasks, task_history, flagVars, stateFile, historyFile >>]_vars

\* An unknown id was refused by an engine that has a history and a finished task.
C1_Witness ==
    /\ up
    /\ ret["t1"].op = "run_task"
    /\ ret["t1"].kind = "raise"
    /\ ~Registered(ret["t1"].arg)
    /\ task_history # << >>

\* C2: a run_task call for a registered id that returns has appended exactly one
\* MaintenanceResult to the history, with the id of the task, and returns that
\* record; while the call runs the history changes by that append only.
C2_OneRecordPerRun ==
    [][\A c \in Callers :
          /\ RunTaskReturns(c) =>
                LET r == loc[c].result[1] IN
                /\ r.task_id = loc[c].task_id
                /\ Len(task_history') = loc[c].run0 + 1
                /\ task_history'[Len(task_history')] = r
                /\ IF loc[c].nested
                   THEN loc'[c].results = Append(loc[c].results, r)
                   ELSE /\ ret'[c].kind = "return"
                        /\ ret'[c].arg = r.task_id
                        /\ ret'[c].value = << r >>
          /\ (pc[c] # "idle" /\ task_history' # task_history) =>
                /\ pc[c] = "finish"
                /\ task_history' = Append(task_history, loc'[c].result[1])]_vars

\* A disk check whose second device timed out returned its one failed record.
C2_Witness ==
    /\ ret["t1"].op = "run_task"
    /\ ret["t1"].kind = "return"
    /\ ret["t1"].arg = "check_disk_health"
    /\ ret["t1"].found > 0
    /\ ~ret["t1"].value[1].success
    /\ task_history # << >>
    /\ task_history[Len(task_history)] = ret["t1"].value[1]

\* C3 as amended: a run of check_disk_health or check_nvme_health that finds no
\* device of its class does not raise; it returns a result with success false and
\* the "no devices" message as error, that result is appended to the history, and
\* the task is left Failed.
C3_ZeroDevicesReturnsFailure ==
    [][\A c \in Callers :
          (Ends(c, "run_task") /\ ret'[c].arg \in DeviceTasks /\ ret'[c].found = 0)
          => /\ ret'[c].kind = "return"
             /\ ~ret'[c].value[1].success
             /\ ret'[c].value[1].error =
                    Some(<< IF ret'[c].arg = "check_disk_health"
                            THEN NoDisksMsg ELSE NoNvmeMsg >>)
             /\ Len(task_history') = ret'[c].hist0 + 1
             /\ task_history'[Len(task_history')] = ret'[c].value[1]
             /\ tasks'[ret'[c].arg].status = FAILED]_vars

\* An NVMe check found no device and returned.
C3_Witness ==
    /\ ret["t1"].op = "run_task"
    /\ ret["t1"].arg = "check_nvme_health"
    /\ ret["t1"].found = 0
    /\ ret["t1"].kind = "return"

\* C3 as stated: a run of check_disk_health or check_nvme_health that finds no
\* device raises to the caller and appends nothing to the history.
C3_ZeroDevicesRaises ==
    [][\A c \in Callers :
          (Ends(c, "run_task") /\ ret'[c].arg \in DeviceTasks /\ ret'[c].found = 0)
          => /\ ret'[c].kind = "raise"
             /\ Len(task_history') = ret'[c].hist0]_vars

\* C5: when run_task returns a result r, the task is Completed if r.success and
\* Failed if not; it is neither Running nor Pending.
C5_StatusFollowsResult ==
    [][\A c \in Callers :
          RunTaskReturns(c) =>
             LET status == tasks'[loc[c].task_id].status IN
             /\ status = IF loc[c].result[1].success THEN COMPLETED ELSE FAILED
             /\ status \notin { RUNNING, PENDING }]_vars

\* A firmware update succeeded and left its task Completed.
C5_Witness ==
    /\ ret["t1"].op = "run_task"
    /\ ret["t1"].kind = "return"
    /\ ret["t1"].arg = "update_firmware"
    /\ ret["t1"].value[1].success
    /\ tasks["update_firmware"].status = COMPLETED

\* C6 as stated: a task becomes Completed or Failed only from Running, and no
\* task is ever Skipped.
C6_StatusStateMachine ==
    [][\A id \in TaskIds :
          /\ (tasks'[id].status # tasks[id].status
              /\ tasks'[id].status \in { COMPLETED, FAILED })
             => tasks[id].status = RUNNING
          /\ tasks'[id].status # SKIPPED]_vars

\* The step that constructs an engine.
Constructs == ~up /\ up'

C9_ConstructTolerant ==
    /\ [](~up => ENABLED Construct)
    /\ [][(Constructs /\ stateFile.kind # JSON)
          => /\ ~firmware_no_supported_hardware'
             /\ ~smartctl_not_found'
             /\ ~no_smart_devices_found'
             /\ \A id \in TaskIds : tasks'[id].last_run = Null]_vars

\* An engine runs on a state file that was damaged after an earlier session ran a
\* task, in a data directory that cannot be written.
C9_Witness ==
    /\ up
    /\ stateFile.kind = Corrupt
    /\ calls = 0
    /\ ~firmware_no_supported_hardware
    /\ \A id \in TaskIds : tasks[id].last_run = Null

\* C9 as stated: constructed from an absent or corrupt state file, the engine has
\* all five capability flags false and every last_run null.
C9_AllFlagsFalse ==
    [][(Constructs /\ stateFile.kind # JSON)
          => /\ ~firmware_no_supported_hardware'
             /\ ~smartctl_not_found'
             /\ ~no_smart_devices_found'
             /\ ~has_sata_devices'
             /\ ~has_nvme_devices'
             /\ \A id \in TaskIds : tasks'[id].last_run = Null]_vars

\* The state file holds what _save_last_run_state writes for the engine that ended.
StateWasSaved ==
    stateFile = File(JSON, StateJson(tasks, firmware_no_supported_hardware,
                                     smartctl_not_found, no_smart_devices_found,
                                     has_sata_devices, has_nvme_devices))

\* C10 as amended: an engine constructed from the state file an engine saved has
\* the same firmware_no_supported_hardware, smartctl_not_found and
\* no_smart_devices_found and the same last_run for every task
\* (has_sata_devices and has_nvme_devices are set again by the device scan of
\* the constructor).
C10_StateRoundTrip ==
    [][(Constructs /\ StateWasSaved)
          => /\ \A id \in TaskIds : tasks'[id].last_run = tasks[id].last_run
             /\ firmware_no_supported_hardware' = firmware_no_supported_hardware
             /\ smartctl_not_found' = smartctl_not_found
             /\ no_smart_devices_found' = no_smart_devices_found]_vars

\* A new engine, no call made yet, has the last_run and the flag an earlier
\* session saved.
C10_Witness ==
    /\ up
    /\ pc["t1"] = "idle"
    /\ ret["t1"] = NoRet
    /\ tasks["update_firmware"].last_run # Null
    /\ firmware_no_supported_hardware

\* C10 as stated: an engine constructed from the state file an engine saved has
\* the same five capability flags and the same last_run for every task.
C10_AllFlagsRoundTrip ==
    [][(Constructs /\ StateWasSaved)
          => /\ \A id \in TaskIds : tasks'[id].last_run = tasks[id].last_run
             /\ firmware_no_supported_hardware' = firmware_no_supported_hardware
             /\ smartctl_not_found' = smartctl_not_found
             /\ no_smart_devices_found' = no_smart_devices_found
             /\ has_sata_devices' = has_sata_devices
             /\ has_nvme_devices' = has_nvme_devices]_vars

\* The i-th of the k most recent records of h.
Recent(h, k, i) == h[Len(h) - k + i]

\* The number of records a save keeps of n.
Kept(n) == IF n < 100 THEN n ELSE 100

\* C7: a history save that succeeds leaves in the file exactly the most recent
\* min(100, n) of the n records in memory, in insertion order; and an engine
\* constructed after a run whose save succeeded starts with these records, the
\* 100 most recent when more than 100 were in memory.
C7_HistoryCappedOnSave ==
    [][\A c \in Callers :
          /\ (RunTaskReturns(c) /\ diskOk)
             => LET k == Kept(Len(task_history')) IN
                /\ historyFile'.kind = JSON
                /\ Len(historyFile'.data) = k
                /\ \A i \in 1..k :
                      historyFile'.data[i] =
                          [Recent(task_history', k, i) EXCEPT !.timestamp = << "T", @ >>]
          /\ (Constructs /\ diskOk /\ ret[c].op = "run_task" /\ ret[c].kind = "return")
             => LET k == Kept(Len(task_history)) IN
                /\ Len(task_history') = k
                /\ \A i \in 1..k : task_history'[i] = Recent(task_history, k, i)]_vars

\* A new engine has loaded 100 records: the oldest of the 101 that were in memory
\* is gone, the newest is a firmware update.
C7_Witness ==
    /\ up
    /\ pc["t1"] = "idle"
    /\ ret["t1"] = NoRet
    /\ Len(task_history) = 100
    /\ task_history[1].timestamp = 4
    /\ task_history[100].task_id = "update_firmware"
    /\ task_history[99].task_id = "update_firmware"

\* C11: a run_task call during which the files cannot be written still returns its
\* MaintenanceResult and raises nothing; the status and the result text of the
\* task are those of the outcome, the record is the last of the in-memory
\* history, and the history file is as it was.
C11_WriteFailuresAbsorbed ==
    [][\A c \in Callers :
          (RunTaskReturns(c) /\ ~loc[c].nested /\ ~diskOk)
          => LET r == loc[c].result[1]
                 id == loc[c].task_id IN
             /\ ret'[c].kind = "return"
             /\ ret'[c].value = << r >>
             /\ tasks'[id].status = IF r.success THEN COMPLETED ELSE FAILED
             /\ tasks'[id].result =
                    << IF r.success THEN << "Success" >>
                       ELSE << "Failed: " >> \o
                            (IF r.error = << >> THEN << "None" >> ELSE r.error[1]) >>
             /\ task_history' # << >>
             /\ task_history'[Len(task_history')] = r
             /\ historyFile' = historyFile]_vars

\* A run returned its record although neither file could be written since the
\* engine was constructed: the record is in memory and no history file exists.
C11_Witness ==
    /\ up
    /\ ~diskOk
    /\ ret["t1"].op = "run_task"
    /\ ret["t1"].kind = "return"
    /\ task_history # << >>
    /\ task_history[Len(task_history)] = ret["t1"].value[1]
    /\ historyFile.kind = Absent
    /\ stateFile.kind = Absent

\* The ids the selection rule names: a cleanup category and a low or medium priority.
Eligible ==
    { id \in TaskIds :
        /\ Registry[id].category \in { "Package Management", "System Cleanup", "User Cleanup" }
        /\ Registry[id].priority \in { LOW, MEDIUM } }

\* The positions of the results for id in a returned sequence.
ResultsFor(results, id) == { i \in 1..Len(results) : results[i].task_id = id }

SetUpFailed == Some(<< "OSError" >>)

C13_OneElevatedSession ==
    [][\A c \in Callers :
          /\ Ends(c, "run_automated_cleanup")
             => LET privileged == { id \in Eligible : Registry[id].requires_sudo } IN
                /\ ret'[c].elevated <= 1
                /\ (privileged # { }
                    /\ \E i \in ResultsFor(ret'[c].value, CHOOSE id \in privileged : TRUE) :
                          ret'[c].value[i].error # SetUpFailed)
                   => ret'[c].elevated = 1
                /\ privileged = { } => ret'[c].elevated = 0
          /\ (loc[c].op = "run_automated_cleanup" /\ loc[c].nested
              /\ loc'[c].op = "run_automated_cleanup")
             => loc'[c].elevated = loc[c].elevated]_vars

C13_Witness ==
    /\ ret["t1"].op = "run_automated_cleanup" /\ ret["t1"].kind = "return"
    /\ ret["t1"].elevated = 1
    /\ Len(ret["t1"].value) = 5
    /\ ret["t1"].value[1].success


\* C14: in run_automated_cleanup every privileged eligible task receives one
\* result with the success, output and error of the single batch session and
\* duration 0, and all of them end with the same status: Completed when the
\* session succeeded, Failed with the session's error otherwise.
Privileged == { id \in Eligible : Registry[id].requires_sudo }

C14_BatchResultFansOut ==
    [][\A c \in Callers :
          Ends(c, "run_automated_cleanup")
          => \E success \in BOOLEAN :
             \E output \in { ret'[c].value[i].output : i \in 1..Len(ret'[c].value) } :
             \E error \in { ret'[c].value[i].error : i \in 1..Len(ret'[c].value) } :
                /\ success <=> error = Null
                /\ \A id \in Privileged :
                      /\ \A i \in ResultsFor(ret'[c].value, id) :
                            /\ ret'[c].value[i].success = success
                            /\ ret'[c].value[i].output = output
                            /\ ret'[c].value[i].error = error
                            /\ ret'[c].value[i].duration = 0
                      /\ ResultsFor(ret'[c].value, id) # { }
                      /\ tasks'[id].status = IF success THEN COMPLETED ELSE FAILED
                      /\ tasks'[id].result =
                            << IF success THEN << "Success" >>
                               ELSE << "Failed: " >> \o error[1] >>]_vars

C14_Witness ==
    /\ ret["t1"].op = "run_automated_cleanup" /\ ret["t1"].kind = "return"
    /\ \A id \in Privileged : tasks[id].status = FAILED
    /\ ret["t1"].value[1].error = << << "stderr" >> >>
    /\ ret["t1"].value[1].output # << >>


\* C15: every result run_automated_cleanup returns, from the privileged batch
\* or from the individual path, is in the history in memory and in the history
\* file, and its task's last_run is set in memory and in the state file.
InHistory(r, h) == \E i \in 1..Len(h) : h[i] = r

C15_CleanupWritesThrough ==
    [][\A c \in Callers :
          Ends(c, "run_automated_cleanup")
          => \A i \in 1..Len(ret'[c].value) :
                LET r == ret'[c].value[i] IN
                /\ InHistory(r, task_history')
                /\ historyFile'.kind = JSON
                /\ InHistory([r EXCEPT !.timestamp = << "T", @ >>], historyFile'.data)
                /\ tasks'[r.task_id].last_run # Null
                /\ stateFile'.kind = JSON
                /\ stateFile'.data.last_run[r.task_id] # Null]_vars


\* Command i of the task is in the output of the run: echoed by the script, or
\* reported by the loop that runs the commands one by one.
InScript(out, word, i) ==
    \E j \in 1..(Len(out) - 1) : out[j] = word /\ out[j + 1] = ToString(i)

Reported(out, command) ==
    \E j \in 1..(Len(out) - Len(command)) :
        out[j] = "Command:" /\ SubSeq(out, j + 1, j + Len(command)) = command

Executed(id, out, i) ==
    IF Branch(id) = "batch" THEN InScript(out, "Executing command", i)
    ELSE Reported(out, Registry[id].commands[i])

\* Command i was executed and failed.
FailedAt(id, out, i) ==
    IF Branch(id) = "batch"
    THEN InScript(out, "Executing command", i) /\ ~InScript(out, "Command completed", i)
    ELSE \E j \in 1..(Len(out) - 2) :
            /\ out[j] = "Command:" /\ out[j + 1] = Registry[id].commands[i][1]
            /\ out[j + 2] \in { "Error:", "Error: Timeout" }

\* C16 as stated: in a run of a registered task with two or more commands, when
\* a command before the last one fails the later commands are still executed,
\* and the result has success false and an error.
C16_LaterCommandsStillRun ==
    [][\A c \in Callers :
          (RunTaskReturns(c) /\ loc[c].task_id \in MultiCommandIds)
          => LET r == loc[c].result[1]
                 id == loc[c].task_id
                 n == Len(Registry[id].commands) IN
             \A i \in 1..(n - 1) :
                FailedAt(id, r.output, i)
                => /\ \A k \in (i + 1)..n : Executed(id, r.output, k)
                   /\ ~r.success /\ r.error # Null]_vars

\* C16 as amended: a task with two or more commands that needs no privileges is
\* run command by command: every command is executed whatever the earlier ones
\* did, a command that fails makes the result unsuccessful and sets the error,
\* and a command that succeeds leaves both as they were, so that the error is
\* that of the last failing command.  A task with two or more commands that
\* requires privileges is run as one script, which stops at the first command
\* that fails: no later command is executed, and the result has success false
\* and the error output of the script as error.
C16_FailureHandlingPerBranch ==
    [][\A c \in Callers :
          /\ pc[c] = "command"
             => LET l == loc[c]
                    command == Registry[l.task_id].commands[l.idx]
                    new == SubSeq(loc'[c].output, Len(l.output) + 1, Len(loc'[c].output))
                IN /\ loc'[c].idx = l.idx + 1
                   /\ pc'[c] = IF l.idx < Len(Registry[l.task_id].commands)
                               THEN "command" ELSE "finish"
                   /\ Reported(<< >> \o new \o << "end" >>, command)
                   /\ Contains(new, "Error:")
                      => /\ ~loc'[c].success
                         /\ loc'[c].error = << << "Command failed:", "stderr" >> >>
                   /\ Contains(new, "Error: Timeout")
                      => /\ ~loc'[c].success
                         /\ loc'[c].error = << << "Command timed out:" >> \o command >>
                   /\ Contains(new, "Output:")
                      => /\ loc'[c].success = l.success
                         /\ loc'[c].error = l.error
          /\ (RunTaskReturns(c) /\ loc[c].task_id \in MultiCommandIds)
             => LET r == loc[c].result[1]
                    id == loc[c].task_id
                    n == Len(Registry[id].commands) IN
                IF Branch(id) = "command"
                THEN /\ \A i \in 1..n : Executed(id, r.output, i)
                     /\ r.success <=> \A i \in 1..n : ~FailedAt(id, r.output, i)
                     /\ r.success <=> r.error = Null
                ELSE \A i \in 1..n :
                        FailedAt(id, r.output, i)
                        => /\ \A k \in (i + 1)..n : ~Executed(id, r.output, k)
                           /\ ~r.success
                           /\ r.error = << << "stderr" >> >>]_vars

\* A browser-cache clean whose first command timed out and whose last command
\* exited non-zero returned the error of the last one.
C16_Witness ==
    /\ ret["t1"].op = "run_task" /\ ret["t1"].kind = "return"
    /\ ret["t1"].arg = "clean_browser_cache"
    /\ FailedAt("clean_browser_cache", ret["t1"].value[1].output, 1)
    /\ Contains(ret["t1"].value[1].output, "Error: Timeout")
    /\ FailedAt("clean_browser_cache", ret["t1"].value[1].output, 4)
    /\ ret["t1"].value[1].error = << << "Command failed:", "stderr" >> >>


\* C17: a run of check_disk_health on a machine where smartctl is not installed
\* ends with smartctl_not_found true in memory and in the state file.
C17_AbsentToolSetsFlag ==
    [][\A c \in Callers :
          (RunTaskReturns(c) /\ loc[c].task_id = "check_disk_health" /\ loc[c].absent)
          => /\ smartctl_not_found'
             /\ stateFile'.kind = JSON
             /\ stateFile'.data.smartctl_not_found]_vars


\* Both threads have made a run_task call that returned, and none is running.
BothReturned ==
    \A c \in Callers : pc[c] = "idle" /\ ret[c].op = "run_task" /\ ret[c].kind = "return"

\* The two calls that returned were running at the same time: each began before
\* the other ended.
Overlapped ==
    LET r1 == ret["t1"].value[1]  r2 == ret["t2"].value[1] IN
    /\ r1.timestamp - r1.duration < r2.timestamp
    /\ r2.timestamp - r2.duration < r1.timestamp

\* C18: the history file is overwritten whole, without a lock, with the entries
\* a call collected when it appended its own record: a save that succeeds leaves
\* in the file the history up to the record of the call that wrote last,
\* whatever other calls appended or wrote in between.
C18_LastWriterWins ==
    [][\A c \in Callers :
          (RunTaskReturns(c) /\ diskOk)
          => \E k \in 1..Len(task_history') :
                /\ task_history'[k] = loc[c].result[1]
                /\ historyFile'.kind = JSON
                /\ Len(historyFile'.data) = k
                /\ \A i \in 1..k :
                      historyFile'.data[i] =
                          [task_history'[i] EXCEPT !.timestamp = << "T", @ >>]]_vars

\* Two overlapping calls have returned, the directory is writable, and the
\* record the second call appended in memory is missing from the file.
C18_Witness ==
    /\ BothReturned /\ Overlapped /\ diskOk
    /\ Len(task_history) = 2
    /\ historyFile.kind = JSON
    /\ Len(historyFile.data) = 1
    /\ historyFile.data[1] = [task_history[1] EXCEPT !.timestamp = << "T", @ >>]

\* C19: run_task is admitted whatever the status of the task, also while
\* another call runs the same task; each call appends its own record when it
\* finalises, and sets the status from its own outcome, so that once both calls
\* have returned the status is Completed or Failed according to the call that
\* finalised last.
C19_OverlappingRunsBothExecute ==
    /\ [](\A c \in Callers, id \in ConcIds :
             (Idle(c) /\ calls > 0) => ENABLED RunTask(c, id))
    /\ [][\A c \in Callers :
             /\ (pc[c] = "finish" /\ pc'[c] = "hist_write")
                => /\ task_history' = Append(task_history, loc'[c].result[1])
                   /\ loc'[c].result[1].success = loc[c].success
                   /\ tasks'[loc[c].task_id].status =
                          IF loc[c].success THEN COMPLETED ELSE FAILED
             /\ (RunTaskReturns(c) /\ ~loc[c].nested)
                => /\ ret'[c].kind = "return"
                   /\ ret'[c].value = loc[c].result
                   /\ InHistory(loc[c].result[1], task_history')]_vars
    /\ [](BothReturned
             => \A id \in TaskIds :
                   (\E i \in 1..Len(task_history) : task_history[i].task_id = id)
                   => LET last == CHOOSE i \in 1..Len(task_history) :
                                     /\ task_history[i].task_id = id
                                     /\ \A j \in (i + 1)..Len(task_history) :
                                           task_history[j].task_id # id
                      IN tasks[id].status =
                             IF task_history[last].success THEN COMPLETED ELSE FAILED)

\* Two overlapping firmware updates have returned: the one that finalised first
\* succeeded, the one that finalised last failed, and the task is Failed.
C19_Witness ==
    /\ BothReturned /\ Overlapped
    /\ \A c \in Callers : ret[c].arg = "update_firmware"
    /\ Len(task_history) = 2
    /\ task_history[1].success /\ ~task_history[2].success
    /\ tasks["update_firmware"].status = FAILED


\* C20: when Config.set(key, value) raises, get(key) afterwards returns what it
\* returned before the call; when it returns, get(key) returns value.
C20_SetKeepsOrStores ==
    [][(cfgRet' # cfgRet /\ cfgRet'.op = "set")
          => IF cfgRet'.kind = "raise"
             THEN get(_config', cfgRet'.key, None) = cfgRet'.prior
             ELSE get(_config', cfgRet'.key, None) = cfgRet'.value]_vars


\* The place in `out` where the script announces command i (0: nowhere).
Announced(out, i) ==
    IF InScript(out, "Executing command", i)
    THEN CHOOSE j \in 1..(Len(out) - 1) :
            out[j] = "Executing command" /\ out[j + 1] = ToString(i)
    ELSE 0

\* C21: run_task on a task that requires privileges and has more than one
\* command (no device task) starts at most one elevated invocation; a session
\* that exits with 0 has run every command of the task, without its sudo, in
\* registration order; the result is successful exactly when the session exited
\* with 0, its error is null then, the error output of the script after a
\* non-zero exit, and the text of the exception otherwise.
C21_OneSessionDecidesResult ==
    [][\A c \in Callers :
          (RunTaskReturns(c) /\ ~loc[c].nested /\ Branch(loc[c].task_id) = "batch")
          => LET r == loc[c].result[1]
                 o == loc[c].session
                 commands == Registry[loc[c].task_id].commands
                 n == Len(commands)
                 exit0 == o.kind = "exit" /\ o.failAt = 0 IN
             /\ ret'[c].elevated <= 1
             /\ o.kind \in { "exit", "timeout" } <=> ret'[c].elevated = 1
             /\ r.success <=> exit0
             /\ r.success => r.error = Null
             /\ (o.kind = "exit" /\ o.failAt # 0) => r.error = << << "stderr" >> >>
             /\ o.kind \in { "timeout", "oserror" } => r.error \notin { Null, << << "stderr" >> >> }
             /\ exit0 =>
                  /\ \A i \in 1..n :
                        LET j == Announced(r.output, i)
                            command == SelectSeq(commands[i], LAMBDA tok : tok # SUDO) IN
                        /\ j > 0
                        /\ SubSeq(r.output, j + 2, j + 1 + Len(command)) = command
                  /\ \A i \in 1..(n - 1) :
                        Announced(r.output, i) < Announced(r.output, i + 1)]_vars

\* A package update whose script exited with 0 returned a successful result
\* after one elevated session.
C21_Witness ==
    /\ ret["t1"].op = "run_task" /\ ret["t1"].kind = "return"
    /\ ret["t1"].arg = "update_packages"
    /\ ret["t1"].elevated = 1
    /\ ret["t1"].value[1].success
    /\ Announced(ret["t1"].value[1].output, 3) > 0


\* The place in `out` where the report of device dev begins (0: nowhere).
ReportedAt(out, dev) ==
    IF \E j \in 1..(Len(out) - 1) : out[j] = "Device:" /\ out[j + 1] = dev
    THEN CHOOSE j \in 1..(Len(out) - 1) : out[j] = "Device:" /\ out[j + 1] = dev
    ELSE 0

\* C22: a run of check_disk_health or check_nvme_health whose enumeration found
\* the devices d1..dn has run exactly one elevated diagnostic command for each
\* of them, in enumeration order, whatever the earlier devices' commands did;
\* the result is unsuccessful exactly when it carries an error.
C22_OneCommandPerDevice ==
    [][\A c \in Callers :
          (RunTaskReturns(c) /\ loc[c].task_id \in DeviceTasks /\ loc[c].devices # << >>)
          => LET r == loc[c].result[1]
                 devices == loc[c].devices
                 n == Len(devices) IN
             /\ loc[c].elevated = n
             /\ \A i, j \in 1..n :
                   (i < j /\ ReportedAt(r.output, devices[j]) > 0)
                   => ReportedAt(r.output, devices[i]) < ReportedAt(r.output, devices[j])
             /\ ~r.success <=> r.error # Null]_vars


\* The error is the message of a timeout.
TimedOut(error) ==
    /\ error # Null
    /\ \E i \in DOMAIN error[1] :
          error[1][i] \in { "timed out", "Command timed out:", "timed out after 600 seconds" }

\* C23: in every branch of run_task a step that times out leaves the run
\* unsuccessful with the timeout as error and is followed by the step that
\* follows a non-zero exit of that step (the next device or command while one is
\* left, the finalisation otherwise); the run ends with the task Failed and one
\* record appended.
C23_TimeoutLikeNonZeroExit ==
    [][\A c \in Callers :
          /\ (pc[c] \in { "batch", "device", "command" } /\ pc'[c] # pc[c]
              /\ TimedOut(loc'[c].error) /\ loc'[c].error # loc[c].error)
             => LET l == loc[c]
                    n == IF pc[c] = "device" THEN Len(l.devices)
                         ELSE Len(Registry[l.task_id].commands) IN
                /\ ~loc'[c].success
                /\ pc'[c] = IF pc[c] # "batch" /\ l.idx < n THEN pc[c] ELSE "finish"
          /\ (RunTaskReturns(c) /\ TimedOut(loc[c].result[1].error))
             => /\ ~loc[c].result[1].success
                /\ tasks'[loc[c].task_id].status = FAILED
                /\ Len(task_history') = loc[c].run0 + 1]_vars


SchedulingFrame ==
    UNCHANGED << task_history, flagVars, stateFile, historyFile >>

\* A run of task id begins in this step: some caller's run_task call starts.
RunBegins(id) ==
    \E c \in Callers : pc[c] = "idle" /\ pc'[c] # "idle" /\ loc'[c].task_id = id

\* C25 as stated: for a registered id schedule_task and cancel_scheduled_task
\* change nothing but the task's next_run (set, respectively null); for an
\* unknown id they raise and change nothing; and no task starts running except
\* in a run_task call.
C25_SchedulingOnlyNextRun ==
    [][/\ \A c \in Callers :
            (Ends(c, "schedule_task") \/ Ends(c, "cancel_scheduled_task"))
            => LET id == ret'[c].arg IN
               /\ SchedulingFrame
               /\ IF Registered(id)
                  THEN /\ ret'[c].kind = "return"
                       /\ tasks' = [tasks EXCEPT ![id].next_run = tasks'[id].next_run]
                       /\ IF ret'[c].op = "schedule_task"
                          THEN tasks'[id].next_run \in { << t >> : t \in ScheduleTimes }
                          ELSE tasks'[id].next_run = Null
                  ELSE ret'[c].kind = "raise" /\ tasks' = tasks
       /\ \A id \in TaskIds :
            (tasks'[id].status = RUNNING /\ tasks[id].status # RUNNING) => RunBegins(id)]_vars

\* C25 as amended: the same, except that schedule_task also sets the status of
\* the task to Pending, whatever it was.
C25_ScheduleResetsStatus ==
    [][/\ \A c \in Callers :
            (Ends(c, "schedule_task") \/ Ends(c, "cancel_scheduled_task"))
            => LET id == ret'[c].arg IN
               /\ SchedulingFrame
               /\ IF Registered(id)
                  THEN /\ ret'[c].kind = "return"
                       /\ tasks'[id].last_run = tasks[id].last_run
                       /\ tasks'[id].result = tasks[id].result
                       /\ \A other \in TaskIds \ { id } : tasks'[other] = tasks[other]
                       /\ IF ret'[c].op = "schedule_task"
                          THEN /\ tasks'[id].next_run \in { << t >> : t \in ScheduleTimes }
                               /\ tasks'[id].status = PENDING
                          ELSE /\ tasks'[id].next_run = Null
                               /\ tasks'[id].status = tasks[id].status
                  ELSE ret'[c].kind = "raise" /\ tasks' = tasks
       /\ \A id \in TaskIds :
            (tasks'[id].status = RUNNING /\ tasks[id].status # RUNNING) => RunBegins(id)]_vars

\* A task that had run and failed was scheduled: it is Pending again, with the
\* last_run and the result of its run.
C25_Witness ==
    /\ ret["t1"].op = "schedule_task" /\ ret["t1"].kind = "return"
    /\ ret["t1"].arg = "clean_package_cache"
    /\ tasks["clean_package_cache"].status = PENDING
    /\ tasks["clean_package_cache"].next_run # Null
    /\ tasks["clean_package_cache"].last_run # Null
    /\ tasks["clean_package_cache"].result # Null
    /\ task_history # << >> /\ ~task_history[1].success

\* C26: in every state reachable by run_task, scan_storage_devices and engine
\* restarts, no_smart_devices_found and has_sata_devices are never both true.
C26_SataFlagsConsistent == ~(no_smart_devices_found /\ has_sata_devices)

\* The records get_task_history(limit) is to return of the history h: the
\* min(limit, n) most recent of its n records.
MostRecent(h, limit) ==
    LET k == IF limit < Len(h) THEN limit ELSE Len(h)
    IN  [i \in 1..k |-> Recent(h, k, i)]

\* C27: for every limit >= 0 and every history of n records,
\* get_task_history(limit) returns exactly the min(limit, n) most recently
\* appended records in insertion order, and never more than limit records.
C27_HistoryWindow ==
    [][\A c \in Callers :
          Ends(c, "get_task_history")
          => /\ ret'[c].value = MostRecent(task_history, ret'[c].limit)
             /\ Len(ret'[c].value) <= ret'[c].limit]_vars

\* The result text of a task is 'Success'.
SaysSuccess(id) == tasks[id].result = Some(<< "Success" >>)

\* A call of run_task or run_automated_cleanup returns its results in this step.
Produces(c) ==
    /\ Ends(c, "run_task") \/ Ends(c, "run_automated_cleanup")
    /\ ret'[c].kind = "return"

\* Every result a call returns is successful iff it carries no error.
ErrorIffFailed ==
    [][\A c \in Callers :
          Produces(c)
          => \A i \in 1..Len(ret'[c].value) :
                ret'[c].value[i].success <=> ret'[c].value[i].error = Null]_vars

\* C28: every MaintenanceResult produced by run_task or run_automated_cleanup
\* is successful iff its error is null, and the result text of a task is
\* 'Success' iff its status is Completed.
C28_SuccessIffCompleted ==
    /\ ErrorIffFailed
    /\ [](\A id \in TaskIds : SaysSuccess(id) <=> tasks[id].status = COMPLETED)

\* C28 as amended: every MaintenanceResult produced by run_task or
\* run_automated_cleanup is successful iff its error is null; when the call
\* returns, the task of each result has the result text 'Success' iff its
\* status is Completed iff the result is successful; and in every state a
\* Completed task has the result text 'Success' (a task whose text is 'Success'
\* keeps the text while it is Running again, until that run ends).
C28_ResultMatchesStatus ==
    /\ ErrorIffFailed
    /\ [][\A c \in Callers :
             Produces(c)
             => \A i \in 1..Len(ret'[c].value) :
                   LET r == ret'[c].value[i] IN
                   /\ tasks'[r.task_id].result = Some(<< "Success" >>)
                         <=> tasks'[r.task_id].status = COMPLETED
                   /\ r.success <=> tasks'[r.task_id].status = COMPLETED]_vars
    /\ [](\A id \in TaskIds : tasks[id].status = COMPLETED => SaysSuccess(id))

\* A run has returned a failed result with its error, and its task is Failed.
C28_Witness ==
    /\ ret["t1"].op = "run_task" /\ ret["t1"].kind = "return"
    /\ ~ret["t1"].value[1].success
    /\ ret["t1"].value[1].error # Null
    /\ tasks[ret["t1"].arg].status = FAILED
    /\ tasks[ret["t1"].arg].result # Null

\* C29: every temporary script created by _run_commands_batch has been deleted
\* by the time the call returns, on every path (exit code 0, non-zero exit,
\* timeout of the elevated session, failure to launch it): no step leaves a
\* script behind, and no run_task or run_automated_cleanup call returns with a
\* script of its own still in the temporary directory.
C29_ScriptsDeleted ==
    [][\A c \in Callers :
          /\ loc'[c].scripts <= loc[c].scripts
          /\ (Ends(c, "run_task") \/ Ends(c, "run_automated_cleanup"))
             => ret'[c].scripts = 0]_vars

\* C30: Config.update(updates) is all-or-nothing: a call that returns leaves
\* every key of updates with its new value, and a call that raises
\* ConfigurationError leaves every key of updates as it was, in memory and in
\* the saved file.
C30_UpdateAllOrNothing ==
    [][(cfgRet' # cfgRet /\ cfgRet'.op = "update")
          => \A i \in 1..Len(cfgRet'.updates) :
                LET key == cfgRet'.updates[i].key IN
                IF cfgRet'.kind = "return"
                THEN get(_config', key, None) = cfgRet'.updates[i].value
                ELSE /\ get(_config', key, None) = get(_config, key, None)
                     /\ get(configFile'.data, key, None) = get(configFile.data, key, None)]_vars

====
